---- MODULE Spec2Model ----
(***************************************************************************)
(* A model of ebml-iterable's TagWriter (src/src/tag_writer.rs): the       *)
(* open-tag stack, the working buffer, the header backpatch and the flush  *)
(* to the sink.                                                            *)
(*                                                                         *)
(* Representation.  TLC's integers are 32 bit, so a 64-bit integer (u64,   *)
(* i64, the bits of an f64) is a tuple of four 16-bit limbs, most          *)
(* significant first; an i64 is its two's-complement bit pattern.  Bytes   *)
(* are 0..255.  Buffer lengths, offsets and sizes are plain integers.      *)
(* Option<T> is a sequence of at most one element.                         *)
(***************************************************************************)
EXTENDS Integers, Sequences, FiniteSets, TLC

VARIABLES
    open_tags,        \* TagWriter.open_tags: Vec<(u64, usize)>
    working_buffer,   \* TagWriter.working_buffer: Vec<u8>
    dest,             \* TagWriter.dest: the calls the sink has received
    result,           \* what the last write call returned
    event,            \* history: the argument of the last write call
    pre,              \* history: the writer's state before the last write call
    shadow,           \* history: the trees the well-nested calls so far denote
    calls             \* history: number of write calls made

vars == <<open_tags, working_buffer, dest, result, event, pre, shadow, calls>>

----------------------------------------------------------------------------
(* Bounds of the model. *)

\* write calls per behaviour of Spec
MaxCalls == 5
\* write calls per behaviour of SpecBig
MaxBigCalls == 3
\* The size encoder's octet limit.  The format's limit is 8 octets; the model
\* checks with a smaller one so that a payload too large to encode exists.
VintMaxOctets == 2
\* failures of the sink per behaviour
MaxSinkFailures == 1

----------------------------------------------------------------------------
(* 64-bit integers as limbs, bytes. *)

\* values of a u8
Byte == 256
\* values of a 16-bit limb
Limb == Byte * Byte

Some(x) == <<x>>
None == <<>>

\* a small non-negative integer as a u64
U64(n) == <<0, 0, n \div Limb, n % Limb>>

\* unsigned comparison of two u64
RECURSIVE LimbLess(_, _)
LimbLess(a, b) ==
    IF a = <<>> THEN FALSE
    ELSE IF Head(a) # Head(b) THEN Head(a) < Head(b)
    ELSE LimbLess(Tail(a), Tail(b))

ULeq(a, b) == a = b \/ LimbLess(a, b)

\* signed comparison of two i64 bit patterns
IsNeg(a) == a[1] >= Limb \div 2
SLeq(a, b) ==
    IF IsNeg(a) # IsNeg(b) THEN IsNeg(a) ELSE ULeq(a, b)

\* u64::to_be_bytes / i64::to_be_bytes / f64::to_be_bytes: 8 bytes
to_be_bytes(v) ==
    << v[1] \div Byte, v[1] % Byte, v[2] \div Byte, v[2] % Byte,
       v[3] \div Byte, v[3] % Byte, v[4] \div Byte, v[4] % Byte >>

\* the narrowing keeping the most significant bytes
narrow_be_bytes_leading(v, w) == SubSeq(to_be_bytes(v), 1, w)

\* to_be_bytes of v narrowed (after a successful try_from) to w bytes
narrow_be_bytes(v, w) == SubSeq(to_be_bytes(v), 8 - w + 1, 8)

\* the id bytes with no byte skipped
skip_nothing(bytes) == bytes

\* the id bytes with every zero byte removed, also those after the first
\* non-zero byte
skip_every_zero(bytes) == SelectSeq(bytes, LAMBDA b : b # 0)

\* Iterator::skip_while(|&v| *v == 0)
RECURSIVE skip_while_zero(_)
skip_while_zero(bytes) ==
    IF bytes = <<>> THEN <<>>
    ELSE IF Head(bytes) = 0 THEN skip_while_zero(Tail(bytes))
    ELSE bytes

\* Vec::splice(index..index, ins): insert without removing anything
splice(buf, index, ins) ==
    SubSeq(buf, 1, index) \o ins \o SubSeq(buf, index + 1, Len(buf))

\* the ranges of the narrower integer types
U8_MAX  == <<0, 0, 0, 255>>
U16_MAX == <<0, 0, 0, 65535>>
U32_MAX == <<0, 0, 65535, 65535>>
I8_MIN  == <<65535, 65535, 65535, 65408>>
I8_MAX  == <<0, 0, 0, 127>>
I16_MIN == <<65535, 65535, 65535, 32768>>
I16_MAX == <<0, 0, 0, 32767>>
I32_MIN == <<65535, 65535, 32768, 0>>
I32_MAX == <<0, 0, 32767, 65535>>

----------------------------------------------------------------------------
(* The size encoder, tools::Vint::as_vint for u64.  Its source is not part *)
(* of tag_writer.rs; it is modelled from the description of the scheme:    *)
(* the number of octets is given by the position of the first set bit of   *)
(* the first octet, each octet carries 7 bits of the value per octet of    *)
(* length, and a value that needs more than the octet limit is an error.   *)

RECURSIVE Pow2(_)
Pow2(n) == IF n = 0 THEN 1 ELSE 2 * Pow2(n - 1)

RECURSIVE vint_length(_, _)
vint_length(n, len) ==
    IF len > VintMaxOctets THEN 0
    ELSE IF n < Pow2(7 * len) THEN len
    ELSE vint_length(n, len + 1)

RECURSIVE be_bytes_of(_, _)
be_bytes_of(n, len) ==
    IF len = 0 THEN <<>> ELSE Append(be_bytes_of(n \div Byte, len - 1), n % Byte)

as_vint(n) ==
    LET len == vint_length(n, 1) IN
    IF len = 0 THEN [ok |-> FALSE, bytes |-> <<>>]
    ELSE [ok |-> TRUE, bytes |-> be_bytes_of(n + Pow2(7 * len), len)]

----------------------------------------------------------------------------
(* Results of a write call. *)

Ok == [kind |-> "Ok"]
UnexpectedClosingTag(id, expected) ==
    [kind |-> "UnexpectedClosingTag", tag_id |-> id, expected_id |-> expected]
TagSizeError == [kind |-> "TagSizeError"]
WriteError == [kind |-> "WriteError"]
Panic == [kind |-> "panic"]

----------------------------------------------------------------------------
(* Tags. *)

StartTag(id) == [type |-> "StartTag", id |-> id]
EndTag(id) == [type |-> "EndTag", id |-> id]
FullTag(id, data) == [type |-> "FullTag", id |-> id, data |-> data]

Master(children) == [kind |-> "Master", val |-> children]
UnsignedInt(v) == [kind |-> "UnsignedInt", val |-> v]
Integer(v) == [kind |-> "Integer", val |-> v]
Utf8(s) == [kind |-> "Utf8", val |-> s]
Binary(b) == [kind |-> "Binary", val |-> b]
Float(bits) == [kind |-> "Float", val |-> bits]

\* str::as_bytes: the UTF-8 encoding of a string, given as its scalar values
utf8_char(c) ==
    IF c < 128 THEN <<c>>
    ELSE IF c < 2048 THEN <<192 + (c \div 64), 128 + (c % 64)>>
    ELSE <<224 + (c \div 4096), 128 + ((c \div 64) % 64), 128 + (c % 64)>>

RECURSIVE as_bytes(_)
as_bytes(s) ==
    IF s = <<>> THEN <<>> ELSE utf8_char(Head(s)) \o as_bytes(Tail(s))

----------------------------------------------------------------------------
(* The sink, a std::io::Write.  io says how the sink behaves during one    *)
(* write call: "ok", "write_fails" (write_all returns Err) or              *)
(* "flush_fails" (flush returns Err).  dest records the calls it received. *)

SinkBehaviours == {"ok", "write_fails", "flush_fails"}

SinkWrite(data, ok) == [op |-> "write_all", data |-> data, ok |-> ok]
SinkFlush(ok) == [op |-> "flush", data |-> <<>>, ok |-> ok]

----------------------------------------------------------------------------
(* TagWriter.  A writer w is [open_tags, working_buffer, dest, res], res   *)
(* being the Result of the call in progress.                               *)

\* TagWriter::new
new ==
    [open_tags |-> <<>>, working_buffer |-> <<>>, dest |-> <<>>, res |-> Ok]

\* start_tag recording the start of the buffer instead of its end
start_tag_offset_zero(w, id) ==
    [w EXCEPT !.open_tags = Append(@, <<id, 0>>)]

\* start_tag recording the index of the last buffered byte, counted from one
\* where the buffer counts from zero
start_tag_offset_past_end(w, id) ==
    [w EXCEPT !.open_tags = Append(@, <<id, Len(w.working_buffer) + 1>>)]

\* TagWriter::start_tag
start_tag(w, id) ==
    [w EXCEPT !.open_tags = Append(@, <<id, Len(w.working_buffer)>>)]

\* the flush with write_all given the buffer itself, nothing drained
flush_outermost_keeps_buffer(w, io) ==
    IF io = "write_fails" THEN
        [w EXCEPT !.dest = Append(@, SinkWrite(w.working_buffer, FALSE)),
                  !.res = WriteError]
    ELSE IF io = "flush_fails" THEN
        [w EXCEPT !.dest = @ \o <<SinkWrite(w.working_buffer, TRUE), SinkFlush(FALSE)>>,
                  !.res = WriteError]
    ELSE
        [w EXCEPT !.dest = @ \o <<SinkWrite(w.working_buffer, TRUE), SinkFlush(TRUE)>>]

\* the flush with the buffer emptied only once write_all has succeeded
flush_outermost_drains_on_success(w, io) ==
    LET drained == [w EXCEPT !.working_buffer = <<>>] IN
    IF io = "write_fails" THEN
        [w EXCEPT !.dest = Append(@, SinkWrite(w.working_buffer, FALSE)),
                  !.res = WriteError]
    ELSE IF io = "flush_fails" THEN
        [drained EXCEPT !.dest = @ \o <<SinkWrite(w.working_buffer, TRUE), SinkFlush(FALSE)>>,
                        !.res = WriteError]
    ELSE
        [drained EXCEPT !.dest = @ \o <<SinkWrite(w.working_buffer, TRUE), SinkFlush(TRUE)>>]

\* The flush of finalize_tag, lines 106-109.  The Drain is a temporary of the
\* write_all statement: it empties working_buffer when that statement ends,
\* whether write_all returned Ok or Err.
flush_outermost(w, io) ==
    LET drained == [w EXCEPT !.working_buffer = <<>>] IN
    IF io = "write_fails" THEN
        [drained EXCEPT !.dest = Append(@, SinkWrite(w.working_buffer, FALSE)),
                        !.res = WriteError]
    ELSE IF io = "flush_fails" THEN
        [drained EXCEPT !.dest = @ \o <<SinkWrite(w.working_buffer, TRUE), SinkFlush(FALSE)>>,
                        !.res = WriteError]
    ELSE
        [drained EXCEPT !.dest = @ \o <<SinkWrite(w.working_buffer, TRUE), SinkFlush(TRUE)>>]

\* finalize_tag that splices the id bytes in before it encodes the size
finalize_tag_id_first(w, id, size, io) ==
    LET size_vint == as_vint(size) IN
    IF size > Len(w.working_buffer) THEN [w EXCEPT !.res = Panic]
    ELSE
        LET index == Len(w.working_buffer) - size
            with_id == [w EXCEPT !.working_buffer =
                            splice(@, index, skip_while_zero(to_be_bytes(id)))]
            spliced == [w EXCEPT !.working_buffer =
                            splice(@, index, skip_while_zero(to_be_bytes(id)) \o size_vint.bytes)]
        IN  IF ~size_vint.ok THEN [with_id EXCEPT !.res = TagSizeError]
            ELSE IF spliced.open_tags = <<>> THEN flush_outermost(spliced, io)
            ELSE spliced

\* finalize_tag that hands the buffer to the sink whether or not a tag is
\* still open
finalize_tag_always_flushes(w, id, size, io) ==
    LET size_vint == as_vint(size) IN
    IF ~size_vint.ok THEN [w EXCEPT !.res = TagSizeError]
    ELSE IF size > Len(w.working_buffer) THEN [w EXCEPT !.res = Panic]
    ELSE
        LET index == Len(w.working_buffer) - size
            header == skip_while_zero(to_be_bytes(id)) \o size_vint.bytes
        IN  flush_outermost([w EXCEPT !.working_buffer = splice(@, index, header)], io)

\* finalize_tag with the header appended to the buffer instead of spliced in
\* before the payload
finalize_tag_appends(w, id, size, io) ==
    LET size_vint == as_vint(size) IN
    IF ~size_vint.ok THEN [w EXCEPT !.res = TagSizeError]
    ELSE
        LET header == skip_while_zero(to_be_bytes(id)) \o size_vint.bytes
            spliced == [w EXCEPT !.working_buffer = @ \o header]
        IN  IF spliced.open_tags = <<>> THEN flush_outermost(spliced, io)
            ELSE spliced

\* TagWriter::finalize_tag
finalize_tag(w, id, size, io) ==
    LET size_vint == as_vint(size) IN
    IF ~size_vint.ok THEN [w EXCEPT !.res = TagSizeError]
    ELSE IF size > Len(w.working_buffer) THEN [w EXCEPT !.res = Panic]
    ELSE
        LET index == Len(w.working_buffer) - size
            header == skip_while_zero(to_be_bytes(id)) \o size_vint.bytes
            spliced == [w EXCEPT !.working_buffer = splice(@, index, header)]
        IN  IF spliced.open_tags = <<>> THEN flush_outermost(spliced, io)
            ELSE spliced

\* end_tag taking the whole buffer as the closed tag's payload
end_tag_whole_buffer(w, id, io) ==
    IF w.open_tags = <<>> THEN
        [w EXCEPT !.res = UnexpectedClosingTag(id, None)]
    ELSE
        LET open_tag == w.open_tags[Len(w.open_tags)]
            popped == [w EXCEPT !.open_tags = SubSeq(@, 1, Len(@) - 1)]
        IN  IF open_tag[1] = id THEN
                finalize_tag(popped, open_tag[1], Len(w.working_buffer), io)
            ELSE [popped EXCEPT !.res = UnexpectedClosingTag(id, Some(open_tag[1]))]

\* end_tag that looks at the innermost open tag and removes it only when the
\* ids match
end_tag_keeps_entry(w, id, io) ==
    IF w.open_tags = <<>> THEN
        [w EXCEPT !.res = UnexpectedClosingTag(id, None)]
    ELSE
        LET open_tag == w.open_tags[Len(w.open_tags)]
            popped == [w EXCEPT !.open_tags = SubSeq(@, 1, Len(@) - 1)]
        IN  IF open_tag[1] = id THEN
                finalize_tag(popped, open_tag[1],
                             Len(w.working_buffer) - open_tag[2], io)
            ELSE [w EXCEPT !.res = UnexpectedClosingTag(id, Some(open_tag[1]))]

\* TagWriter::end_tag
end_tag(w, id, io) ==
    IF w.open_tags = <<>> THEN
        [w EXCEPT !.res = UnexpectedClosingTag(id, None)]
    ELSE
        LET open_tag == w.open_tags[Len(w.open_tags)]
            popped == [w EXCEPT !.open_tags = SubSeq(@, 1, Len(@) - 1)]
        IN  IF open_tag[1] = id THEN
                IF open_tag[2] > Len(w.working_buffer) THEN [popped EXCEPT !.res = Panic]
                ELSE finalize_tag(popped, open_tag[1],
                                  Len(w.working_buffer) - open_tag[2], io)
            ELSE [popped EXCEPT !.res = UnexpectedClosingTag(id, Some(open_tag[1]))]

\* the unsigned arm choosing the least number of bytes, 3, 5, 6 and 7 included
unsigned_bytes_minimal(val) ==
    IF val = U64(0) THEN <<0>> ELSE skip_while_zero(to_be_bytes(val))

\* the signed arm testing the unsigned ranges
integer_bytes_unsigned_ranges(val) ==
    IF ULeq(val, U8_MAX) THEN narrow_be_bytes(val, 1)
    ELSE IF ULeq(val, U16_MAX) THEN narrow_be_bytes(val, 2)
    ELSE IF ULeq(val, U32_MAX) THEN narrow_be_bytes(val, 4)
    ELSE to_be_bytes(val)

\* The scalar arms of write_full_tag, lines 74-92: the bytes appended to the
\* working buffer; size is their number.
unsigned_bytes(val) ==
    IF ULeq(val, U8_MAX) THEN narrow_be_bytes(val, 1)
    ELSE IF ULeq(val, U16_MAX) THEN narrow_be_bytes(val, 2)
    ELSE IF ULeq(val, U32_MAX) THEN narrow_be_bytes(val, 4)
    ELSE to_be_bytes(val)

integer_bytes(val) ==
    IF SLeq(I8_MIN, val) /\ SLeq(val, I8_MAX) THEN narrow_be_bytes(val, 1)
    ELSE IF SLeq(I16_MIN, val) /\ SLeq(val, I16_MAX) THEN narrow_be_bytes(val, 2)
    ELSE IF SLeq(I32_MIN, val) /\ SLeq(val, I32_MAX) THEN narrow_be_bytes(val, 4)
    ELSE to_be_bytes(val)

scalar_bytes(data) ==
    CASE data.kind = "UnsignedInt" -> unsigned_bytes(data.val)
      [] data.kind = "Integer" -> integer_bytes(data.val)
      [] data.kind = "Utf8" -> as_bytes(data.val)
      [] data.kind = "Binary" -> data.val
      [] data.kind = "Float" -> to_be_bytes(data.val)

\* TagWriter::write and TagWriter::write_full_tag call each other; `?`
\* returns at the first Err.
RECURSIVE write(_, _, _)
RECURSIVE write_full_tag(_, _, _, _)
RECURSIVE write_children(_, _, _)

\* the loop going on to the next child after a child has failed
write_children_past_errors(w, children, io) ==
    IF children = <<>> THEN w
    ELSE LET c == Head(children)
             w1 == write(w, FullTag(c[1], c[2]), io)
         IN  write_children(w1, Tail(children), io)

\* the loop writing the children from the last to the first
write_children_last_first(w, children, io) ==
    IF children = <<>> THEN w
    ELSE LET c == children[Len(children)]
             w1 == write(w, FullTag(c[1], c[2]), io)
         IN  IF w1.res.kind # "Ok" THEN w1
             ELSE write_children(w1, SubSeq(children, 1, Len(children) - 1), io)

\* the loop of lines 68-70
write_children(w, children, io) ==
    IF children = <<>> THEN w
    ELSE LET c == Head(children)
             w1 == write(w, FullTag(c[1], c[2]), io)
         IN  IF w1.res.kind # "Ok" THEN w1
             ELSE write_children(w1, Tail(children), io)

\* write_full_tag without the EndTag that closes a container
write_full_tag_leaves_open(w, id, data, io) ==
    IF data.kind = "Master" THEN
        LET w1 == write(w, StartTag(id), io) IN
        IF w1.res.kind # "Ok" THEN w1
        ELSE write_children(w1, data.val, io)
    ELSE
        LET bytes == scalar_bytes(data)
            appended == [w EXCEPT !.working_buffer = @ \o bytes]
        IN  finalize_tag(appended, id, Len(bytes), io)

write_full_tag(w, id, data, io) ==
    IF data.kind = "Master" THEN
        LET w1 == write(w, StartTag(id), io) IN
        IF w1.res.kind # "Ok" THEN w1
        ELSE LET w2 == write_children(w1, data.val, io) IN
             IF w2.res.kind # "Ok" THEN w2
             ELSE write(w2, EndTag(id), io)
    ELSE
        LET bytes == scalar_bytes(data)
            appended == [w EXCEPT !.working_buffer = @ \o bytes]
        IN  finalize_tag(appended, id, Len(bytes), io)

write(w, tag, io) ==
    CASE tag.type = "StartTag" -> start_tag(w, tag.id)
      [] tag.type = "EndTag" -> end_tag(w, tag.id, io)
      [] tag.type = "FullTag" -> write_full_tag(w, tag.id, tag.data, io)

----------------------------------------------------------------------------
(* History of the calls: the trees that the write calls made so far denote *)
(* when read as a well-nested sequence.  clean says that every call so far *)
(* returned Ok and every EndTag closed the innermost open StartTag; open   *)
(* holds, per StartTag not yet closed, its id and the children completed   *)
(* in it; done holds the completed outermost tags, each an <<id, data>>.   *)

(* discarded is Some([id |-> t, beneath |-> b]) from an EndTag that failed  *)
(* on a mismatch and threw away the open entry of id t, b being the id of  *)
(* the entry that was open around it, for as long as only FullTag calls    *)
(* that return Ok follow it.                                               *)

NoShadow == [clean |-> TRUE, open |-> <<>>, done |-> <<>>, discarded |-> None]

\* a completed tag goes to the innermost open container, or to done
ShadowAdd(sh, tree) ==
    IF sh.open = <<>> THEN [sh EXCEPT !.done = Append(@, tree)]
    ELSE [sh EXCEPT !.open[Len(sh.open)].children = Append(@, tree)]

ShadowDiscarded(sh, tag, res, stack) ==
    IF tag.type = "EndTag" /\ res.kind = "UnexpectedClosingTag" /\ res.expected_id # None
    THEN Some([id |-> res.expected_id[1],
               beneath |-> IF Len(stack) < 2 THEN None
                           ELSE Some(stack[Len(stack) - 1][1])])
    ELSE IF tag.type = "FullTag" /\ res.kind = "Ok" THEN sh.discarded
    ELSE None

ShadowTrees(sh, tag, res) ==
    IF ~sh.clean \/ res.kind # "Ok" THEN [sh EXCEPT !.clean = FALSE]
    ELSE CASE tag.type = "StartTag" ->
                [sh EXCEPT !.open = Append(@, [id |-> tag.id, children |-> <<>>])]
           [] tag.type = "FullTag" -> ShadowAdd(sh, <<tag.id, tag.data>>)
           [] tag.type = "EndTag" ->
                IF sh.open = <<>> \/ sh.open[Len(sh.open)].id # tag.id
                THEN [sh EXCEPT !.clean = FALSE]
                ELSE LET top == sh.open[Len(sh.open)]
                         rest == [sh EXCEPT !.open = SubSeq(@, 1, Len(@) - 1)]
                     IN  ShadowAdd(rest, <<top.id, Master(top.children)>>)

ShadowStep(sh, tag, res, stack) ==
    [ShadowTrees(sh, tag, res) EXCEPT !.discarded = ShadowDiscarded(sh, tag, res, stack)]

----------------------------------------------------------------------------
(* Inputs. *)

\* tag ids: the EBML header id, and well-formed ids of 1 and 2 bytes
EBML == <<0, 0, 6725, 57251>>        \* 0x1A45DFA3
VOID == U64(236)                     \* 0xEC
DOCTYPE == U64(17026)                \* 0x4282

\* ids of the StartTag and EndTag calls of Spec
Ids == {EBML, VOID}

\* payloads of the FullTag calls of Spec
Payloads ==
    { Binary(<<1, 2, 3>>),
      Master(<<>>),
      Master(<< <<VOID, UnsignedInt(U64(256))>>, <<EBML, Master(<<>>)>> >>) }

\* ids of the FullTag calls of SpecFull: the three above, and three that are
\* no well-formed ids of the format: 0, 5 and 0x010000
NUL == U64(0)
FIVE == U64(5)
X10000 == <<0, 0, 1, 0>>
FullIds == {EBML, VOID, DOCTYPE, NUL, FIVE, X10000}

\* a byte string of n bytes
Blob(n) == [i \in 1..n |-> i % 251]

UnsignedValues ==
    { U64(0), U64(1), U64(255), U64(256), U64(65535), <<0, 0, 1, 0>>,
      <<0, 0, 256, 0>>, <<0, 0, 65535, 65535>>, <<0, 1, 0, 0>>,
      <<0, 256, 0, 0>>, <<1, 0, 0, 0>>, <<65535, 65535, 65535, 65535>> }

SignedValues ==
    { U64(0), U64(1), U64(127), U64(128), U64(255), U64(32767), U64(32768),
      <<0, 0, 32767, 65535>>, <<0, 0, 32768, 0>>, <<0, 256, 0, 0>>,
      <<32767, 65535, 65535, 65535>>,
      <<65535, 65535, 65535, 65535>>, <<65535, 65535, 65535, 65408>>,
      <<65535, 65535, 65535, 65407>>, <<65535, 65535, 65535, 32768>>,
      <<65535, 65535, 65535, 32767>>, <<65535, 65535, 32768, 0>>,
      <<65535, 65535, 32767, 65535>>, <<32768, 0, 0, 0>> }

Scalars ==
    {UnsignedInt(v) : v \in UnsignedValues}
    \cup {Integer(v) : v \in SignedValues}
    \cup {Utf8(t) : t \in {<<>>, <<65>>, <<233>>, <<8364, 65>>}}
    \cup {Binary(b) : b \in {<<>>, <<0>>, <<1, 2, 3>>, Blob(127), Blob(128)}}
    \cup {Float(f) : f \in {U64(0), <<16368, 0, 0, 0>>}}

Masters ==
    { Master(<<>>),
      Master(<< <<VOID, UnsignedInt(U64(256))>> >>),
      Master(<< <<DOCTYPE, Utf8(<<233>>)>>, <<VOID, Integer(<<65535, 65535, 65535, 65407>>)>> >>),
      Master(<< <<EBML, Master(<< <<VOID, Binary(<<1, 2, 3>>)>> >>)>>, <<DOCTYPE, Master(<<>>)>> >>),
      Master(<< <<VOID, Binary(Blob(128))>>, <<DOCTYPE, UnsignedInt(U64(1))>> >>),
      Master(<< <<FIVE, Binary(<<1, 2, 3>>)>> >>),
      Master(<< <<NUL, Master(<<>>)>> >>) }

\* payloads of the FullTag calls of SpecFull
FullPayloads == Scalars \cup Masters

\* payloads of the FullTag calls of SpecBig: up to and beyond the largest
\* size two octets encode
\* a container whose grandchild is too large for its size to be encoded, with
\* children before and after it
OversizeInside ==
    Master(<< <<VOID, Binary(<<1>>)>>,
              <<EBML, Master(<< <<VOID, Binary(<<7>>)>>,
                                <<VOID, Binary(Blob(16384))>>,
                                <<DOCTYPE, Binary(<<9>>)>> >>)>>,
              <<VOID, Binary(<<2>>)>> >>)

\* a container whose children are written but whose own size is too large
OversizeWhole == Master(<< <<VOID, Binary(Blob(16383))>> >>)

BigPayloads ==
    {Binary(Blob(n)) : n \in {127, 128, 16383, 16384}} \cup {OversizeInside, OversizeWhole}

----------------------------------------------------------------------------
(* The state machine: one action per kind of write call. *)

State == [open_tags |-> open_tags, working_buffer |-> working_buffer,
          dest |-> dest, res |-> Ok]

Init ==
    /\ open_tags = new.open_tags
    /\ working_buffer = new.working_buffer
    /\ dest = new.dest
    /\ result = Ok
    /\ event = [type |-> "none"]
    /\ pre = [open_tags |-> <<>>, working_buffer |-> <<>>, dest |-> <<>>,
              discarded |-> None]
    /\ shadow = NoShadow
    /\ calls = 0

\* one call of TagWriter::write by the caller
Call(tag, io) ==
    LET w == write(State, tag, io) IN
    /\ result.kind # "panic"
    /\ open_tags' = w.open_tags
    /\ working_buffer' = w.working_buffer
    /\ dest' = w.dest
    /\ result' = w.res
    /\ event' = tag
    /\ pre' = [open_tags |-> open_tags, working_buffer |-> working_buffer,
               dest |-> dest, discarded |-> shadow.discarded]
    /\ shadow' = ShadowStep(shadow, tag, w.res, open_tags)
    /\ calls' = calls + 1

\* the behaviours the sink may still show
Failures == Cardinality({i \in DOMAIN dest : ~dest[i].ok})
SinkNow == IF Failures < MaxSinkFailures THEN SinkBehaviours ELSE {"ok"}

WriteStartTag ==
    /\ calls < MaxCalls
    /\ \E id \in Ids : Call(StartTag(id), "ok")

WriteEndTag ==
    /\ calls < MaxCalls
    /\ \E id \in Ids, io \in SinkNow : Call(EndTag(id), io)

WriteFullTag ==
    /\ calls < MaxCalls
    /\ \E data \in Payloads, io \in SinkNow : Call(FullTag(DOCTYPE, data), io)

Next == WriteStartTag \/ WriteEndTag \/ WriteFullTag

Spec == Init /\ [][Next]_vars

\* One FullTag written to a fresh writer, over all ids and payloads.
FirstFullTag ==
    /\ calls = 0
    /\ \E id \in FullIds, data \in FullPayloads : Call(FullTag(id, data), "ok")

SpecFull == Init /\ [][FirstFullTag]_vars

\* Calls with payloads whose sizes reach the size encoder's limit.
BigStartTag ==
    /\ calls < MaxBigCalls
    /\ \E id \in Ids : Call(StartTag(id), "ok")

BigEndTag ==
    /\ calls < MaxBigCalls
    /\ \E id \in Ids : Call(EndTag(id), "ok")

BigFullTag ==
    /\ calls < MaxBigCalls
    /\ \E data \in BigPayloads : Call(FullTag(DOCTYPE, data), "ok")

NextBig == BigStartTag \/ BigEndTag \/ BigFullTag

SpecBig == Init /\ [][NextBig]_vars

----------------------------------------------------------------------------
(* The wire format, as a reference: a tag is its id bytes, the size of its *)
(* payload as a vint, and its payload; the payload of a container is its   *)
(* children's encodings one after the other.                               *)

RECURSIVE Enc(_)
RECURSIVE EncAll(_)
EncAll(trees) ==
    IF trees = <<>> THEN <<>> ELSE Enc(Head(trees)) \o EncAll(Tail(trees))

Enc(tree) ==
    LET payload == IF tree[2].kind = "Master" THEN EncAll(tree[2].val)
                   ELSE scalar_bytes(tree[2])
    IN  skip_while_zero(to_be_bytes(tree[1])) \o as_vint(Len(payload)).bytes \o payload

\* the byte strings the sink received, in order
RECURSIVE WritesOf(_)
WritesOf(log) ==
    IF log = <<>> THEN <<>>
    ELSE IF Head(log).op = "write_all" THEN <<Head(log).data>> \o WritesOf(Tail(log))
    ELSE WritesOf(Tail(log))

\* what the last call added to the sink's log
NewDest == SubSeq(dest, Len(pre.dest) + 1, Len(dest))

\* the id on top of the stack before the last call, as an Option
PreTop ==
    IF pre.open_tags = <<>> THEN None
    ELSE Some(pre.open_tags[Len(pre.open_tags)][1])

----------------------------------------------------------------------------
\* C1: after a well-nested sequence of calls that all returned Ok, the sink
\* has received, per completed outermost tag and in order, exactly that
\* tag's recursive encoding: id bytes, then the vint of the payload length,
\* then the payload, a container's payload being its children's encodings.
C1_NestedEncoding ==
    shadow.clean =>
        WritesOf(dest) = [i \in 1..Len(shadow.done) |-> Enc(shadow.done[i])]

\* StartTag(EBML), StartTag(VOID), FullTag(DOCTYPE, Bytes 1 2 3), EndTag(VOID),
\* EndTag(EBML) has delivered one write
C1_Witness ==
    /\ shadow.clean
    /\ calls = 5
    /\ event = EndTag(EBML)
    /\ shadow.done =
         << <<EBML, Master(<< <<VOID, Master(<< <<DOCTYPE, Binary(<<1, 2, 3>>)>> >>)>> >>)>> >>
    /\ WritesOf(dest) = << <<26, 69, 223, 163, 136, 236, 134, 66, 130, 131, 1, 2, 3>> >>

----------------------------------------------------------------------------
\* the last call returned Ok and finalized a tag with no tag left open: a
\* FullTag written with nothing open, or an EndTag closing the only open tag
CompletedOutermost ==
    /\ result.kind = "Ok"
    /\ \/ event.type = "FullTag" /\ pre.open_tags = <<>>
       \/ event.type = "EndTag" /\ Len(pre.open_tags) = 1 /\ PreTop = Some(event.id)

\* C2: while the sink has not failed, a call that completes an outermost tag
\* gives the sink exactly one write followed by exactly one flush, every
\* other call gives it nothing, and no call that leaves a tag open has
\* reached the sink; so the sink's log is a sequence of write, flush pairs.
C2_OneWriteFlushPerOutermost ==
    Failures = 0 =>
        /\ IF CompletedOutermost
           THEN /\ Len(NewDest) = 2
                /\ NewDest[1].op = "write_all"
                /\ NewDest[2].op = "flush"
           ELSE NewDest = <<>>
        /\ open_tags # <<>> => NewDest = <<>>
        /\ \A i \in DOMAIN dest :
               dest[i].op = IF i % 2 = 1 THEN "write_all" ELSE "flush"

\* a second outermost tag, closed by EndTag after a nested child, has been
\* delivered
C2_Witness ==
    /\ Failures = 0
    /\ CompletedOutermost
    /\ event.type = "EndTag"
    /\ pre.working_buffer # <<>>
    /\ Len(dest) = 4

\* C3: EndTag(id) with nothing open returns UnexpectedClosingTag with
\* expected_id None and changes nothing; EndTag(id) with another id t on top
\* of the stack returns UnexpectedClosingTag with expected_id Some(t), has
\* removed exactly that top entry, and leaves buffer and sink as they were.
C3_UnmatchedClose ==
    event.type = "EndTag" =>
        /\ pre.open_tags = <<>> =>
               /\ result = UnexpectedClosingTag(event.id, None)
               /\ open_tags = <<>>
               /\ working_buffer = pre.working_buffer
               /\ dest = pre.dest
        /\ (pre.open_tags # <<>> /\ PreTop # Some(event.id)) =>
               /\ result = UnexpectedClosingTag(event.id, PreTop)
               /\ open_tags = SubSeq(pre.open_tags, 1, Len(pre.open_tags) - 1)
               /\ working_buffer = pre.working_buffer
               /\ dest = pre.dest

\* a mismatching EndTag met two open tags and a non-empty buffer
C3_Witness ==
    /\ event.type = "EndTag"
    /\ Len(pre.open_tags) = 2
    /\ PreTop # Some(event.id)
    /\ pre.working_buffer # <<>>
    /\ result.kind = "UnexpectedClosingTag"

\* C5: after a call that completed an outermost tag, the sink's write and
\* flush having succeeded, the working buffer is empty.
C5_BufferEmptyAfterOutermost ==
    CompletedOutermost => Len(working_buffer) = 0

\* a second outermost tag, built from buffered bytes, has been completed
C5_Witness ==
    /\ CompletedOutermost
    /\ Len(pre.working_buffer) > 0
    /\ Len(NewDest) = 2
    /\ Len(dest) = 4
    /\ working_buffer = <<>>

----------------------------------------------------------------------------
(* Reading integers back from bytes, for the claims about encodings. *)

\* the id bytes expected on the wire, written out per id
IdBytesOf(id) ==
    CASE id = EBML -> <<26, 69, 223, 163>>
      [] id = VOID -> <<236>>
      [] id = DOCTYPE -> <<66, 130>>
      [] id = NUL -> <<>>
      [] id = FIVE -> <<5>>
      [] id = X10000 -> <<1, 0, 0>>

\* bytes extended on the left to 8 bytes with the byte fill
Extend(bytes, fill) == [i \in 1..(8 - Len(bytes)) |-> fill] \o bytes

\* 8 bytes, most significant first, as a 64-bit integer
Limbs(b) == [i \in 1..4 |-> b[2 * i - 1] * Byte + b[2 * i]]

\* the unsigned integer that at most 8 big-endian bytes denote
UValue(bytes) == Limbs(Extend(bytes, 0))

\* the signed integer that at most 8 big-endian two's-complement bytes denote
SValue(bytes) ==
    Limbs(Extend(bytes, IF bytes # <<>> /\ bytes[1] >= 128 THEN 255 ELSE 0))

\* 256^w for w < 8
Pow256(w) ==
    CASE w = 1 -> <<0, 0, 0, 256>>
      [] w = 2 -> <<0, 0, 1, 0>>
      [] w = 4 -> <<0, 1, 0, 0>>

Widths == {1, 2, 4, 8}

\* v < 256^w
UFits(v, w) == w = 8 \/ LimbLess(v, Pow256(w))

\* the 8 bytes of a 64-bit integer, most significant first
ByteAt(v, i) == IF i % 2 = 1 THEN v[(i + 1) \div 2] \div Byte ELSE v[i \div 2] % Byte

\* -2^(8w-1) <= v < 2^(8w-1): above its low 8w-1 bits, every bit of v equals
\* the sign bit, bit 8w-1
SFits(v, w) ==
    LET sign == IF ByteAt(v, 8 - w + 1) >= 128 THEN 255 ELSE 0
    IN  \A i \in 1..(8 - w) : ByteAt(v, i) = sign

\* the narrowest of the widths 1, 2, 4, 8 that fits, given which widths fit
Narrowest(fits(_)) == CHOOSE w \in Widths : fits(w) /\ \A x \in Widths : x < w => ~fits(x)

\* the last call wrote one scalar FullTag to a fresh writer
ScalarWritten(kind) ==
    /\ calls = 1
    /\ pre.open_tags = <<>>
    /\ pre.working_buffer = <<>>
    /\ event.type = "FullTag"
    /\ event.data.kind = kind

\* the payload of the tag the sink received: what follows the id bytes and the
\* one octet of a size below 128
PayloadSent == SubSeq(dest[1].data, Len(IdBytesOf(event.id)) + 2, Len(dest[1].data))

----------------------------------------------------------------------------
\* C4: FullTag(id, Master of no children) written to a fresh writer delivers
\* the id's big-endian bytes without the leading zero bytes, then the vint
\* of 0, and nothing else, in one write; stack and buffer are empty after.
C4_EmptyContainer ==
    ( /\ calls = 1
      /\ pre.open_tags = <<>>
      /\ pre.working_buffer = <<>>
      /\ event.type = "FullTag"
      /\ event.data = Master(<<>>) ) =>
        /\ result = Ok
        /\ dest = << SinkWrite(IdBytesOf(event.id) \o as_vint(0).bytes, TRUE),
                     SinkFlush(TRUE) >>
        /\ event.id = EBML => dest[1].data = <<26, 69, 223, 163>> \o as_vint(0).bytes
        /\ open_tags = <<>>
        /\ working_buffer = <<>>

\* the empty EBML header tag has been written
C4_Witness ==
    /\ calls = 1
    /\ event = FullTag(EBML, Master(<<>>))
    /\ Len(dest) = 2
    /\ Len(dest[1].data) = 5

\* C6: FullTag(id, UnsignedInt(v)) sends v big-endian in exactly w bytes, w
\* the narrowest of 1, 2, 4, 8 with v < 256^w, and records w as the size.
C6_UnsignedWidth ==
    ScalarWritten("UnsignedInt") =>
        LET v == event.data.val
            w == Narrowest(LAMBDA x : UFits(v, x))
        IN  /\ result = Ok
            /\ Len(PayloadSent) = w
            /\ UValue(PayloadSent) = v
            /\ dest[1].data = IdBytesOf(event.id) \o as_vint(w).bytes \o PayloadSent
            /\ v = U64(255) => PayloadSent = <<255>>
            /\ v = U64(256) => PayloadSent = <<1, 0>>
            /\ v = <<0, 0, 1, 0>> => PayloadSent = <<0, 1, 0, 0>>
            /\ v = <<0, 256, 0, 0>> => PayloadSent = <<0, 0, 1, 0, 0, 0, 0, 0>>

\* a value of 3 significant bytes has been sent in 4 bytes
C6_Witness ==
    /\ ScalarWritten("UnsignedInt")
    /\ event.data.val = <<0, 0, 256, 0>>
    /\ PayloadSent = <<1, 0, 0, 0>>

\* C7: FullTag(id, Integer(v)) sends v in two's complement, big-endian, in
\* exactly w bytes, w the narrowest of 1, 2, 4, 8 whose signed range holds v,
\* and records w as the size; the bytes read back as a signed integer are v.
C7_SignedWidth ==
    ScalarWritten("Integer") =>
        LET v == event.data.val
            w == Narrowest(LAMBDA x : SFits(v, x))
        IN  /\ result = Ok
            /\ Len(PayloadSent) = w
            /\ SValue(PayloadSent) = v
            /\ dest[1].data = IdBytesOf(event.id) \o as_vint(w).bytes \o PayloadSent
            /\ v = U64(127) => PayloadSent = <<127>>
            /\ v = U64(128) => PayloadSent = <<0, 128>>
            /\ v = <<65535, 65535, 65535, 65408>> => PayloadSent = <<128>>
            /\ v = <<65535, 65535, 65535, 65407>> => PayloadSent = <<255, 127>>

\* -129 has been sent in 2 bytes
C7_Witness ==
    /\ ScalarWritten("Integer")
    /\ event.data.val = <<65535, 65535, 65535, 65407>>
    /\ PayloadSent = <<255, 127>>

----------------------------------------------------------------------------
\* the last call reached finalize_tag directly: a scalar FullTag, or an
\* EndTag naming the innermost open tag
Finalizes ==
    \/ event.type = "FullTag" /\ event.data.kind # "Master"
    \/ event.type = "EndTag" /\ PreTop = Some(event.id)

\* the bytes that call appended before finalize_tag, and the size it passed
AppendedPayload ==
    IF event.type = "FullTag" THEN scalar_bytes(event.data) ELSE <<>>

FinalizedSize ==
    IF event.type = "FullTag" THEN Len(AppendedPayload)
    ELSE Len(pre.working_buffer) - pre.open_tags[Len(pre.open_tags)][2]

\* C8: when a tag is finalized with a size the size encoder cannot encode,
\* the call returns TagSizeError, no header byte has entered the buffer (it
\* holds what it held plus the scalar's payload), and the sink received
\* nothing.
C8_SizeErrorBeforeHeader ==
    (Finalizes /\ ~as_vint(FinalizedSize).ok) =>
        /\ result = TagSizeError
        /\ working_buffer = pre.working_buffer \o AppendedPayload
        /\ dest = pre.dest

\* an EndTag found a container of 16387 bytes, more than two octets encode
C8_Witness ==
    /\ event.type = "EndTag"
    /\ Finalizes
    /\ FinalizedSize = 16387
    /\ ~as_vint(FinalizedSize).ok
    /\ result = TagSizeError
    /\ open_tags = <<>>

----------------------------------------------------------------------------
\* the last call is an EndTag(t) for an entry of id t that a failed EndTag
\* discarded, no StartTag or EndTag having come between the two
ClosesDiscarded ==
    /\ event.type = "EndTag"
    /\ pre.discarded # None
    /\ pre.discarded[1].id = event.id

\* C9 as claimed: an EndTag(t) for an entry that an earlier failed EndTag
\* discarded fails with UnexpectedClosingTag, whatever the rest of the stack.
C9_LaterCloseFails ==
    ClosesDiscarded => result.kind = "UnexpectedClosingTag"

\* C9: an EndTag(t) for an entry that an earlier failed EndTag discarded
\* fails with UnexpectedClosingTag, naming the entry that enclosed the
\* discarded one (None when there was none), unless that enclosing entry has
\* id t as well: then it is that entry the EndTag closes.
C9_LaterCloseFailsUnlessSameId ==
    ClosesDiscarded =>
        IF pre.discarded[1].beneath = Some(event.id)
        THEN result.kind # "UnexpectedClosingTag"
        ELSE result = UnexpectedClosingTag(event.id, pre.discarded[1].beneath)

\* the EndTag for a discarded entry failed against the enclosing entry, with
\* a FullTag written in between
C9_Witness ==
    /\ ClosesDiscarded
    /\ calls = 5
    /\ pre.discarded[1].beneath # None
    /\ result = UnexpectedClosingTag(event.id, pre.discarded[1].beneath)
    /\ open_tags = <<>>

----------------------------------------------------------------------------
(* A reader of the wire format, as a reference.  An id and a size announce *)
(* their own length: an octet string of length L starts with L-1 zero bits *)
(* and a one bit.  The id keeps that marker bit, the size drops it.  The   *)
(* reader is told the type of each payload, as a schema would tell it.     *)

\* the length an octet string announces in its first octet, 0 for none
MarkerLen(b) ==
    IF b >= 128 THEN 1 ELSE IF b >= 64 THEN 2 ELSE IF b >= 32 THEN 3
    ELSE IF b >= 16 THEN 4 ELSE IF b >= 8 THEN 5 ELSE IF b >= 4 THEN 6
    ELSE IF b >= 2 THEN 7 ELSE IF b >= 1 THEN 8 ELSE 0

Failed == [ok |-> FALSE]

\* [ok, id, rest]
ReadId(bytes) ==
    LET len == IF bytes = <<>> THEN 0 ELSE MarkerLen(bytes[1]) IN
    IF len = 0 \/ len > Len(bytes) THEN Failed
    ELSE [ok |-> TRUE, id |-> UValue(SubSeq(bytes, 1, len)),
          rest |-> SubSeq(bytes, len + 1, Len(bytes))]

\* [ok, size, rest]; a size of 2^31 or more is beyond every input here
ReadSize(bytes) ==
    LET len == IF bytes = <<>> THEN 0 ELSE MarkerLen(bytes[1]) IN
    IF len = 0 \/ len > Len(bytes) THEN Failed
    ELSE LET first == bytes[1] - Pow2(8 - len)
             v == UValue(<<first>> \o SubSeq(bytes, 2, len))
         IN  IF v[1] # 0 \/ v[2] # 0 \/ v[3] >= Limb \div 2 THEN Failed
             ELSE [ok |-> TRUE, size |-> v[3] * Limb + v[4],
                   rest |-> SubSeq(bytes, len + 1, Len(bytes))]

\* [ok, text]: the scalar values of a UTF-8 byte string of 1 to 3 byte forms
RECURSIVE ReadUtf8(_)
ReadUtf8(bytes) ==
    IF bytes = <<>> THEN [ok |-> TRUE, text |-> <<>>]
    ELSE LET b == bytes[1]
             n == IF b < 128 THEN 1 ELSE IF b >= 192 /\ b < 224 THEN 2
                  ELSE IF b >= 224 /\ b < 240 THEN 3 ELSE 0
         IN  IF n = 0 \/ n > Len(bytes) THEN Failed
             ELSE LET c == CASE n = 1 -> b
                             [] n = 2 -> (b - 192) * 64 + (bytes[2] - 128)
                             [] n = 3 -> (b - 224) * 4096 + (bytes[2] - 128) * 64
                                         + (bytes[3] - 128)
                      more == ReadUtf8(SubSeq(bytes, n + 1, Len(bytes)))
                  IN  IF more.ok THEN [ok |-> TRUE, text |-> <<c>> \o more.text]
                      ELSE Failed

\* [ok, id, data, rest] for one tag whose payload has the type of shape, and
\* [ok, children] for a payload holding the tags of the types of shapes
RECURSIVE ReadTag(_, _)
RECURSIVE ReadChildren(_, _)

ReadChildren(bytes, shapes) ==
    IF shapes = <<>> THEN
        IF bytes = <<>> THEN [ok |-> TRUE, children |-> <<>>] ELSE Failed
    ELSE LET first == ReadTag(bytes, Head(shapes)[2]) IN
         IF ~first.ok THEN Failed
         ELSE LET more == ReadChildren(first.rest, Tail(shapes)) IN
              IF ~more.ok THEN Failed
              ELSE [ok |-> TRUE,
                    children |-> << <<first.id, first.data>> >> \o more.children]

ReadTag(bytes, shape) ==
    LET id == ReadId(bytes) IN
    IF ~id.ok THEN Failed
    ELSE LET size == ReadSize(id.rest) IN
         IF ~size.ok \/ size.size > Len(size.rest) THEN Failed
         ELSE
            LET payload == SubSeq(size.rest, 1, size.size)
                rest == SubSeq(size.rest, size.size + 1, Len(size.rest))
                tag(data) == [ok |-> TRUE, id |-> id.id, data |-> data, rest |-> rest]
            IN  CASE shape.kind = "Master" ->
                        LET c == ReadChildren(payload, shape.val) IN
                        IF c.ok THEN tag(Master(c.children)) ELSE Failed
                  [] shape.kind = "UnsignedInt" ->
                        IF Len(payload) > 8 THEN Failed
                        ELSE tag(UnsignedInt(UValue(payload)))
                  [] shape.kind = "Integer" ->
                        IF Len(payload) > 8 THEN Failed
                        ELSE tag(Integer(SValue(payload)))
                  [] shape.kind = "Utf8" ->
                        LET t == ReadUtf8(payload) IN
                        IF t.ok THEN tag(Utf8(t.text)) ELSE Failed
                  [] shape.kind = "Binary" -> tag(Binary(payload))
                  [] shape.kind = "Float" ->
                        IF Len(payload) # 8 THEN Failed ELSE tag(Float(Limbs(payload)))

\* an id whose bytes on the wire announce their own number
WellFormedId(id) ==
    /\ IdBytesOf(id) # <<>>
    /\ MarkerLen(IdBytesOf(id)[1]) = Len(IdBytesOf(id))

RECURSIVE WellFormedTag(_, _)
WellFormedTag(id, data) ==
    /\ WellFormedId(id)
    /\ data.kind = "Master" =>
           \A i \in DOMAIN data.val : WellFormedTag(data.val[i][1], data.val[i][2])

\* the last call wrote one FullTag to a fresh writer
OneFullTag ==
    /\ calls = 1
    /\ pre.open_tags = <<>>
    /\ pre.working_buffer = <<>>
    /\ event.type = "FullTag"

\* the sink received one write, and the reader gets the tag written back from it
ReadsBack ==
    /\ result = Ok
    /\ Len(dest) = 2
    /\ ReadTag(dest[1].data, event.data) =
           [ok |-> TRUE, id |-> event.id, data |-> event.data, rest |-> <<>>]

\* C10 as claimed: for every id and payload, the reader gets from the bytes
\* that write(FullTag(id, payload)) sent the same id and the same payload.
C10_RoundTrip ==
    OneFullTag => ReadsBack

\* C10: for every payload and every id that is a well-formed id of the wire
\* format (its first byte announces its length), the ids of the tags within
\* it included, the reader gets from the bytes that write(FullTag(id,
\* payload)) sent the same id and the same payload.
C10_RoundTripWellFormedIds ==
    (OneFullTag /\ WellFormedTag(event.id, event.data)) => ReadsBack

\* a container holding a container and an empty container has been read back
C10_Witness ==
    /\ OneFullTag
    /\ event = FullTag(EBML,
                 Master(<< <<EBML, Master(<< <<VOID, Binary(<<1, 2, 3>>)>> >>)>>,
                           <<DOCTYPE, Master(<<>>)>> >>))
    /\ WellFormedTag(event.id, event.data)
    /\ ReadsBack

----------------------------------------------------------------------------
\* C11 as claimed: between calls, the working buffer is empty exactly when
\* no tag is open.
C11_BufferEmptyIffNoOpenTag ==
    (working_buffer = <<>>) <=> (open_tags = <<>>)

\* C11: before the first call and after every call that returned Ok, the
\* working buffer is empty if no tag is open.  (A tag may be open with the
\* buffer still empty, and a failed call may leave bytes with no tag open.)
C11_BufferEmptyIfNoOpenTagAfterOk ==
    (result.kind = "Ok" /\ open_tags = <<>>) => working_buffer = <<>>

\* a call that returned Ok found bytes left by a failed call with no tag
\* open, and left neither bytes nor open tags
C11_Witness ==
    /\ pre.open_tags = <<>>
    /\ pre.working_buffer # <<>>
    /\ calls > 0
    /\ result.kind = "Ok"
    /\ open_tags = <<>>
    /\ working_buffer = <<>>

----------------------------------------------------------------------------
\* the last call handed bytes to the sink: it finalized a tag with no tag
\* left open
SentToSink == NewDest # <<>>

\* the complete encoding of the tag that call finalized: a FullTag's own
\* encoding, or for an EndTag the id bytes, the vint of the payload length
\* and the payload buffered since the matching StartTag
FinalizedEncoding ==
    IF event.type = "FullTag" THEN Enc(<<event.id, event.data>>)
    ELSE LET start == pre.open_tags[Len(pre.open_tags)][2]
             payload == SubSeq(pre.working_buffer, start + 1, Len(pre.working_buffer))
         IN  IdBytesOf(event.id) \o as_vint(Len(payload)).bytes \o payload

\* C12: whenever a call finalizes a tag with no tag left open and writes the
\* buffer to the sink, the bytes written are exactly the complete encoding
\* of that one tag, also after earlier calls that failed.
C12_OnlyFinalizedTagEmitted ==
    SentToSink => NewDest[1].data = FinalizedEncoding

----------------------------------------------------------------------------
\* the index at which the tag finalized by the last call has its payload
\* start: the offset recorded by the matching StartTag, or the buffer length
\* before a scalar's payload was appended
PayloadStart ==
    IF event.type = "FullTag" THEN Len(pre.working_buffer)
    ELSE pre.open_tags[Len(pre.open_tags)][2]

\* the buffer as that call built it: what it left buffered, or what it
\* handed to the sink when no tag was left open
BuiltBuffer == IF NewDest # <<>> THEN NewDest[1].data ELSE working_buffer

\* C13: a finalized tag's header (id bytes, then size vint) is inserted at
\* the index where the tag's payload begins: the bytes before that index are
\* unchanged, the header follows, and the bytes from that index on, none
\* overwritten, follow the header.
C13_HeaderInsertedAtPayloadStart ==
    (Finalizes /\ as_vint(FinalizedSize).ok) =>
        LET before == pre.working_buffer \o AppendedPayload
            header == IdBytesOf(event.id) \o as_vint(FinalizedSize).bytes
        IN  /\ PayloadStart + FinalizedSize = Len(before)
            /\ SubSeq(BuiltBuffer, 1, PayloadStart) = SubSeq(before, 1, PayloadStart)
            /\ SubSeq(BuiltBuffer, PayloadStart + 1, PayloadStart + Len(header)) = header
            /\ SubSeq(BuiltBuffer, PayloadStart + Len(header) + 1, Len(BuiltBuffer))
                 = SubSeq(before, PayloadStart + 1, Len(before))

\* an EndTag closed an inner container whose payload began past the start
\* of the buffer, its enclosing tag still open
C13_Witness ==
    /\ event.type = "EndTag"
    /\ Finalizes
    /\ result = Ok
    /\ Len(pre.open_tags) = 2
    /\ PayloadStart > 0
    /\ FinalizedSize > 0
    /\ Len(working_buffer) = Len(pre.working_buffer) + Len(IdBytesOf(event.id)) + 1

----------------------------------------------------------------------------
\* C14: write(StartTag(id)) returns Ok, pushes exactly the entry (id, length
\* of the buffer at the call) on top of open_tags, and leaves the buffer,
\* the entries already on the stack and the sink as they were.
C14_StartTagPushesOnly ==
    event.type = "StartTag" =>
        /\ result = Ok
        /\ open_tags = Append(pre.open_tags, <<event.id, Len(pre.working_buffer)>>)
        /\ working_buffer = pre.working_buffer
        /\ dest = pre.dest

\* a StartTag met an open tag, buffered bytes and a sink already written to
C14_Witness ==
    /\ event.type = "StartTag"
    /\ pre.open_tags # <<>>
    /\ pre.working_buffer # <<>>
    /\ pre.dest # <<>>
    /\ Len(open_tags) = Len(pre.open_tags) + 1
    /\ open_tags[Len(open_tags)][2] = Len(working_buffer)

----------------------------------------------------------------------------
\* 256^k as an unsigned 64-bit value, k in 0..7
Pow256To(k) ==
    [i \in 1..4 |-> IF i = 4 - (k \div 2) THEN (IF k % 2 = 0 THEN 1 ELSE Byte) ELSE 0]

\* the k with 256^(k-1) <= id < 256^k, 0 for id 0
IdWidth(id) ==
    IF id = U64(0) THEN 0
    ELSE CHOOSE k \in 1..8 :
             /\ ULeq(Pow256To(k - 1), id)
             /\ k < 8 => LimbLess(id, Pow256To(k))

\* C15: the header of a written tag starts with the id's big-endian bytes
\* without the leading zero bytes and without a length prefix: k bytes for
\* an id in [256^(k-1), 256^k), zero bytes inside or at the end kept, none
\* for id 0; the size vint follows immediately, then the payload it counts.
C15_IdBytesStripped ==
    (OneFullTag /\ result = Ok) =>
        LET data == dest[1].data
            k == IdWidth(event.id)
            id_bytes == SubSeq(data, 1, k)
            rest == SubSeq(data, k + 1, Len(data))
        IN  /\ Len(data) > k
            /\ Len(id_bytes) = k
            /\ UValue(id_bytes) = event.id
            /\ id_bytes = IdBytesOf(event.id)
            /\ \E n \in 0..Len(rest) :
                   /\ as_vint(n).ok
                   /\ Len(rest) = Len(as_vint(n).bytes) + n
                   /\ SubSeq(rest, 1, Len(rest) - n) = as_vint(n).bytes
            /\ event.id = NUL => data = rest

\* the id 0x010000 has been written as 01 00 00, then the size
C15_Witness ==
    /\ OneFullTag
    /\ event.id = X10000
    /\ event.data = Binary(<<1, 2, 3>>)
    /\ dest[1].data = <<1, 0, 0, 131, 1, 2, 3>>

----------------------------------------------------------------------------
(* What a FullTag leaves behind when written at buffer offset base, as a   *)
(* reference: the bytes it adds to the buffer, the stack entries it leaves *)
(* open, and whether it failed on a size that cannot be encoded.  A tag    *)
(* that fails leaves its payload without a header; children after a       *)
(* failed child are not written and the containers around it stay open.    *)
RECURSIVE Partial(_, _, _)
RECURSIVE PartialAll(_, _, _)
PartialAll(children, base, done) ==
    IF children = <<>> THEN [failed |-> FALSE, bytes |-> done, entries |-> <<>>]
    ELSE LET c == Partial(Head(children)[1], Head(children)[2], base + Len(done)) IN
         IF c.failed THEN [c EXCEPT !.bytes = done \o @]
         ELSE PartialAll(Tail(children), base, done \o c.bytes)

Partial(id, data, base) ==
    IF data.kind = "Master" THEN
        LET inner == PartialAll(data.val, base, <<>>) IN
        IF inner.failed THEN [inner EXCEPT !.entries = <<<<id, base>>>> \o @]
        ELSE IF ~as_vint(Len(inner.bytes)).ok
             THEN [failed |-> TRUE, bytes |-> inner.bytes, entries |-> <<>>]
             ELSE [failed |-> FALSE, bytes |-> Enc(<<id, data>>), entries |-> <<>>]
    ELSE
        IF ~as_vint(Len(scalar_bytes(data))).ok
        THEN [failed |-> TRUE, bytes |-> scalar_bytes(data), entries |-> <<>>]
        ELSE [failed |-> FALSE, bytes |-> Enc(<<id, data>>), entries |-> <<>>]

\* the last call wrote a container as a FullTag
ContainerWritten ==
    /\ event.type = "FullTag"
    /\ event.data.kind = "Master"

\* C16: nothing is rolled back when a FullTag container fails inside: the
\* call returns the size error of the first tag that cannot be finalized,
\* the children after it and the closing EndTags are not processed, the
\* entries pushed for the containers around the failing tag stay on
\* open_tags, the bytes appended so far, the failing tag's payload without
\* header included, stay in the buffer, nothing reaches the sink, and the
\* writer can be called again.
C16_NoRollback ==
    ContainerWritten =>
        LET p == Partial(event.id, event.data, Len(pre.working_buffer)) IN
        /\ p.failed <=> result = TagSizeError
        /\ p.failed =>
               /\ open_tags = pre.open_tags \o p.entries
               /\ working_buffer = pre.working_buffer \o p.bytes
               /\ dest = pre.dest
               /\ result.kind # "panic"

\* a container failed on a grandchild of 16384 bytes, after one complete
\* child and one complete grandchild: two entries stay open and the buffer
\* holds the two encodings and the 16384 bytes
C16_Witness ==
    /\ ContainerWritten
    /\ event.data = OversizeInside
    /\ result = TagSizeError
    /\ Len(open_tags) = Len(pre.open_tags) + 2
    /\ open_tags[Len(open_tags)] = <<EBML, Len(pre.working_buffer) + 3>>
    /\ Len(working_buffer) = Len(pre.working_buffer) + 3 + 3 + 16384
    /\ pre.open_tags # <<>>

----------------------------------------------------------------------------
\* C17: when the sink's write or flush fails while an outermost tag is
\* finalized, the call returns WriteError; the sink saw either the failed
\* write alone, no flush being attempted after it, or the write and the
\* failed flush; the writer is left with an empty buffer and no open tag.
\* No other call returns WriteError.
C17_SinkFailure ==
    /\ result = WriteError <=> (NewDest # <<>> /\ ~NewDest[Len(NewDest)].ok)
    /\ result = WriteError =>
           /\ \/ /\ Len(NewDest) = 1
                 /\ NewDest[1].op = "write_all" /\ ~NewDest[1].ok
              \/ /\ Len(NewDest) = 2
                 /\ NewDest[1].op = "write_all" /\ NewDest[1].ok
                 /\ NewDest[2].op = "flush" /\ ~NewDest[2].ok
           /\ working_buffer = <<>>
           /\ open_tags = <<>>

\* the write of an outermost tag closed by EndTag failed: no flush followed,
\* and the bytes buffered for it are gone
C17_Witness ==
    /\ result = WriteError
    /\ event.type = "EndTag"
    /\ pre.working_buffer # <<>>
    /\ Len(NewDest) = 1
    /\ ~NewDest[1].ok
    /\ working_buffer = <<>>
    /\ open_tags = <<>>

----------------------------------------------------------------------------
\* C18: a FullTag never returns UnexpectedClosingTag, whatever its data and
\* whatever the calls before it, and a FullTag that returned Ok leaves
\* open_tags exactly as it found it.
C18_FullTagBalanced ==
    event.type = "FullTag" =>
        /\ result.kind # "UnexpectedClosingTag"
        /\ result = Ok => open_tags = pre.open_tags

\* a container with a nested container was written as a FullTag inside two
\* open tags, after an EndTag had failed
C18_Witness ==
    /\ event.type = "FullTag"
    /\ event.data.kind = "Master"
    /\ event.data.val # <<>>
    /\ ~shadow.clean
    /\ Len(pre.open_tags) = 2
    /\ result = Ok
    /\ open_tags = pre.open_tags

----------------------------------------------------------------------------
\* C19: the start offsets on open_tags never decrease from bottom to top and
\* none exceeds the length of the working buffer, so the subtractions of
\* end_tag (length minus start offset) and finalize_tag (length minus size)
\* never underflow: no call panics.
C19_OffsetsWithinBuffer ==
    /\ \A i \in DOMAIN open_tags : open_tags[i][2] <= Len(working_buffer)
    /\ \A i, j \in DOMAIN open_tags : i <= j => open_tags[i][2] <= open_tags[j][2]
    /\ result.kind # "panic"

\* two tags are open at distinct offsets, the inner one with bytes after its
\* start, and the last call was an EndTag that found both
C19_Witness ==
    /\ Len(pre.open_tags) = 2
    /\ pre.open_tags[1][2] < pre.open_tags[2][2]
    /\ pre.open_tags[2][2] < Len(pre.working_buffer)
    /\ event.type = "EndTag"
    /\ PreTop = Some(event.id)
    /\ result = Ok
    /\ Len(open_tags) = 1

----------------------------------------------------------------------------
\* the writer as the last call found it
PreWriter ==
    [open_tags |-> pre.open_tags, working_buffer |-> pre.working_buffer,
     dest |-> pre.dest, res |-> Ok]

\* how the sink behaved in the last call, read off what it logged
SinkOfCall ==
    IF NewDest = <<>> THEN "ok"
    ELSE IF ~NewDest[1].ok THEN "write_fails"
    ELSE IF ~NewDest[Len(NewDest)].ok THEN "flush_fails"
    ELSE "ok"

\* separate write calls made one after the other on writer w, stopping at
\* the first that does not return Ok
RECURSIVE WriteEach(_, _, _)
WriteEach(w, tags, io) ==
    IF tags = <<>> THEN w
    ELSE LET w1 == write(w, Head(tags), io) IN
         IF w1.res.kind # "Ok" THEN w1
         ELSE WriteEach(w1, Tail(tags), io)

\* StartTag(id), a FullTag per child, EndTag(id)
Unfolded(id, children) ==
    <<StartTag(id)>>
        \o [i \in 1..Len(children) |-> FullTag(children[i][1], children[i][2])]
        \o <<EndTag(id)>>

\* C20: from any state, write(FullTag(id, Container(children))) does what
\* the calls write(StartTag(id)), write(FullTag(c)) for each child c in
\* order, write(EndTag(id)) do when made one by one up to the first error:
\* same result, same open_tags, same buffer, same writes to the sink.
C20_FullTagIsStartChildrenEnd ==
    (event.type = "FullTag" /\ event.data.kind = "Master") =>
        LET w == WriteEach(PreWriter, Unfolded(event.id, event.data.val), SinkOfCall) IN
        /\ result = w.res
        /\ open_tags = w.open_tags
        /\ working_buffer = w.working_buffer
        /\ dest = w.dest

\* a container of two children, one a container itself, was written as a
\* FullTag into an open tag that already held bytes
C20_Witness ==
    /\ event.type = "FullTag"
    /\ event.data.kind = "Master"
    /\ Len(event.data.val) = 2
    /\ pre.open_tags # <<>>
    /\ pre.working_buffer # <<>>
    /\ result = Ok
    /\ Len(working_buffer) > Len(pre.working_buffer)

====
